---- MODULE Spec2Model ----
(***************************************************************************)
(* Model of src/imas_mcp_server/data_dictionary_index.py: the document     *)
(* extraction pipeline of DataDictionaryIndex (extractor generator,        *)
(* per-element entry builder, documentation composer, batcher) and the     *)
(* index name derivation.                                                   *)
(*                                                                         *)
(* Representation.  The XML tree is a sequence of element records in       *)
(* document order; an element's depth places it in the tree (depth 1 is a  *)
(* child of the XML root and carries the tag IDS).  Index 0 stands for the *)
(* XML root element and NoElem for Python's None.  A missing attribute     *)
(* is NoAttr.  A path or dictionary key "x/y/z" is the sequence            *)
(* <<"x","y","z">> of its names (names hold no "/"), so the number of "/"  *)
(* in a key is its length minus one.  A composed documentation string is   *)
(* the sequence of the sections that "\n\n".join() puts together.          *)
(***************************************************************************)
EXTENDS Integers, Sequences, FiniteSets, TLC

VARIABLES
    schema,            \* the parsed IDSDef.xml tree (_dd_etree)
    ids_set,           \* DataDictionaryIndex.ids_set: Optional[Set[str]]
    caller,            \* who iterates _get_document: "direct" or "batcher"
    batch_size,        \* _get_document_batch's argument
    pc,                \* position of the _get_document generator
    ids_nodes,         \* _get_document local
    i,                 \* position of "for ids_node in ids_nodes"
    elems,             \* ids_node.findall(".//*[@name]") of the current IDS
    j,                 \* position of "for elem in ..."
    document_count,    \* _get_document local
    context_manager,   \* _get_document local: "own" or "None"
    progress,          \* _get_document local: which tracker it advances
    tracker,           \* state of the two rich Progress resources
    extractor_exits,   \* trackers on which _get_document called __exit__
    stream,            \* every record _get_document has yielded, in order
    pending,           \* the batcher has not yet handled the last record
    bpc,               \* position of the _get_document_batch generator
    documents_batch,   \* _get_document_batch local
    processed_paths,   \* _get_document_batch local
    total_documents,   \* _get_document_batch local
    batch_count,       \* _get_document_batch local
    batches,           \* every batch _get_document_batch has yielded
    index_prefix,      \* DataDictionaryIndex.index_prefix
    dd_version,        \* DataDictionaryIndex.dd_version.public
    indexname,         \* DataDictionaryIndex.indexname
    ipc,               \* "constructing" until __post_init__ has run
    fragment_map,      \* argument of _build_hierarchical_documentation
    from_walk,         \* the argument was collected by _build_element_entry
    composed,          \* result of _build_hierarchical_documentation
    cpc                \* "input" until the composer has returned

vars == <<schema, ids_set, caller, batch_size, pc, ids_nodes, i, elems, j,
          document_count, context_manager, progress, tracker,
          extractor_exits, stream, pending, bpc, documents_batch,
          processed_paths, total_documents, batch_count, batches,
          index_prefix, dd_version, indexname, ipc, fragment_map,
          from_walk, composed, cpc>>

extractorVars == <<pc, ids_nodes, i, elems, j, document_count,
                   context_manager, progress, extractor_exits, stream>>

batcherVars == <<bpc, documents_batch, processed_paths, total_documents,
                 batch_count, batches>>

configVars == <<schema, ids_set, caller, batch_size, index_prefix,
                dd_version>>

pipelineVars == <<caller, batch_size, extractorVars, tracker, pending,
                  batcherVars>>

identityVars == <<indexname, ipc>>

composerVars == <<fragment_map, from_walk, composed, cpc>>

(***************************************************************************)
(* Bounds of the model                                                      *)
(***************************************************************************)
MaxNodes == 3

MaxBatch == 2

MaxParts == 3

MaxSubset == 2

(***************************************************************************)
(* Program constants                                                        *)
(***************************************************************************)
DEFAULT_BATCH_SIZE == 500

PROGRESS_LOG_INTERVAL == 50

MaxHeaderLevel == 6

NoAttr == "<absent>"

NoElem == -1

XmlRoot == 0

AsParent == "as_parent"

Truthy(v) == v # NoAttr /\ v # ""

(***************************************************************************)
(* The XML tree                                                             *)
(***************************************************************************)
Attr(s, k, a) == IF k = XmlRoot \/ k = NoElem THEN NoAttr ELSE s[k][a]

GetOr(v, default) == IF v = NoAttr THEN default ELSE v

Max(S) == CHOOSE x \in S : \A y \in S : y <= x

Min(S) == CHOOSE x \in S : \A y \in S : x <= y

RECURSIVE Ascending(_)
Ascending(S) ==
    IF S = {} THEN << >>
    ELSE LET m == Min(S) IN <<m>> \o Ascending(S \ {m})

ParentMap(s, k) ==
    IF k = XmlRoot \/ k = NoElem THEN NoElem
    ELSE IF s[k].depth = 1 THEN XmlRoot
    ELSE Max({p \in 1..(k - 1) : s[p].depth = s[k].depth - 1})

IdsElements(s) ==
    Ascending({k \in 1..Len(s) : s[k].depth = 1 /\ s[k].name # NoAttr})

NamedDescendants(s, ids_node) ==
    Ascending({k \in (ids_node + 1)..Len(s) :
                  /\ \A m \in (ids_node + 1)..k : s[m].depth > 1
                  /\ s[k].name # NoAttr})

(***************************************************************************)
(* Python values                                                            *)
(***************************************************************************)
\* A str as the documentation of a record: "" is the empty sequence of
\* sections, any other raw attribute text is one section.
RawString(text) ==
    IF text = "" THEN << >>
    ELSE <<[kind |-> "raw", key |-> << >>, text |-> text, level |-> 0,
            indent |-> 0]>>

\* An insertion-ordered dict as the sequence of its items.
DictHas(d, key) == \E n \in 1..Len(d) : d[n].key = key

DictGet(d, key, default) ==
    IF DictHas(d, key)
    THEN d[CHOOSE n \in 1..Len(d) : d[n].key = key].doc
    ELSE default

DictSet(d, key, doc) ==
    IF DictHas(d, key)
    THEN [n \in 1..Len(d) |-> IF d[n].key = key
                              THEN [key |-> key, doc |-> doc] ELSE d[n]]
    ELSE Append(d, [key |-> key, doc |-> doc])

DictKeys(d) == [n \in 1..Len(d) |-> d[n].key]

\* x.count("/") of a key
SlashCount(key) == Len(key) - 1

(***************************************************************************)
(* _build_hierarchical_documentation                                        *)
(***************************************************************************)
RECURSIVE StableSortBySlashCount(_)
StableSortBySlashCount(keys) ==
    IF keys = << >> THEN << >>
    ELSE LET least == Min({SlashCount(keys[n]) : n \in 1..Len(keys)})
         IN  SelectSeq(keys, LAMBDA k : SlashCount(k) = least)
             \o StableSortBySlashCount(
                    SelectSeq(keys, LAMBDA k : SlashCount(k) # least))

PathsByDepthInsertionOrder(keys) == keys

\* sorted(documentation_parts.keys(), key=lambda x: x.count("/"))
PathsByDepth(keys) == StableSortBySlashCount(keys)

LeafSection(path, doc) ==
    [kind |-> "leaf", key |-> path, text |-> doc, level |-> 0, indent |-> 0]

ContextHeader ==
    [kind |-> "context_header", key |-> << >>, text |-> "", level |-> 2,
     indent |-> 0]

ContextSection(path_key, doc) ==
    LET depth == SlashCount(path_key) + 1
    IN  IF depth + 2 <= MaxHeaderLevel
        THEN [kind |-> "heading", key |-> path_key, text |-> doc,
              level |-> depth + 2, indent |-> 0]
        ELSE [kind |-> "bold", key |-> path_key, text |-> doc,
              level |-> MaxHeaderLevel,
              indent |-> depth + 2 - MaxHeaderLevel]

RECURSIVE ContextSections(_, _)
ContextSections(documentation_parts, remaining_paths) ==
    IF remaining_paths = << >> THEN << >>
    ELSE LET path_key == Head(remaining_paths)
             doc == DictGet(documentation_parts, path_key, "")
         IN  (IF Truthy(doc) THEN <<ContextSection(path_key, doc)>>
              ELSE << >>)
             \o ContextSections(documentation_parts, Tail(remaining_paths))

BuildHierarchicalDocumentation(documentation_parts) ==
    IF documentation_parts = << >> THEN << >>
    ELSE LET paths_by_depth == PathsByDepth(DictKeys(documentation_parts))
             deepest_path == paths_by_depth[Len(paths_by_depth)]
             leaf_doc == DictGet(documentation_parts, deepest_path, "")
             remaining_paths ==
                 SubSeq(paths_by_depth, 1, Len(paths_by_depth) - 1)
         IN  (IF Truthy(leaf_doc)
              THEN <<LeafSection(deepest_path, leaf_doc)>> ELSE << >>)
             \o (IF remaining_paths # << >>
                 THEN <<ContextHeader>>
                      \o ContextSections(documentation_parts, remaining_paths)
                 ELSE << >>)

(***************************************************************************)
(* _build_element_entry                                                     *)
(***************************************************************************)
NoEntry == [path |-> << >>]

RECURSIVE WalkUp(_, _, _, _, _)
WalkUp(s, walker, ids_node, ids_name, acc) ==
    IF walker = NoElem \/ walker = ids_node THEN acc
    ELSE LET walker_name == Attr(s, walker, "name")
             path_parts == IF Truthy(walker_name)
                           THEN <<walker_name>> \o acc.path_parts
                           ELSE acc.path_parts
             walker_doc == Attr(s, walker, "documentation")
             documentation_parts ==
                 IF Truthy(walker_name) /\ Truthy(walker_doc)
                 THEN DictSet(acc.documentation_parts,
                              <<ids_name>> \o path_parts, walker_doc)
                 ELSE acc.documentation_parts
             parent_walker == ParentMap(s, walker)
             parent_units == Attr(s, parent_walker, "units")
             units == IF /\ acc.units = AsParent
                         /\ parent_walker # NoElem
                         /\ Truthy(parent_units)
                      THEN parent_units ELSE acc.units
         IN  WalkUp(s, parent_walker, ids_node, ids_name,
                    [path_parts |-> path_parts,
                     documentation_parts |-> documentation_parts,
                     units |-> units])

WalkFrom(s, elem, ids_node, ids_name) ==
    WalkUp(s, elem, ids_node, ids_name,
           [path_parts |-> << >>, documentation_parts |-> << >>,
            units |-> GetOr(Attr(s, elem, "units"), "")])

\* The fragment map handed to the composer: the walk's fragments, then the
\* IDS documentation.
FragmentMap(s, elem, ids_node, ids_name) ==
    LET walked == WalkFrom(s, elem, ids_node, ids_name)
        ids_doc == Attr(s, ids_node, "documentation")
    IN  IF Truthy(ids_doc)
        THEN DictSet(walked.documentation_parts, <<ids_name>>, ids_doc)
        ELSE walked.documentation_parts

BuildElementEntry(s, elem, ids_node, ids_name) ==
    LET walked == WalkFrom(s, elem, ids_node, ids_name)
        combined_documentation ==
            BuildHierarchicalDocumentation(
                FragmentMap(s, elem, ids_node, ids_name))
    IN  IF walked.path_parts = << >> THEN NoEntry
        ELSE [path |-> <<ids_name>> \o walked.path_parts,
              documentation |->
                  IF combined_documentation # << >>
                  THEN combined_documentation
                  ELSE RawString(GetOr(Attr(s, elem, "documentation"), "")),
              units |-> IF walked.units = "" THEN "none" ELSE walked.units,
              ids_name |-> ids_name]

\* The record _get_document yields for an IDS itself.
IdsRootEntry(s, ids_node, ids_name) ==
    [path |-> <<ids_name>>,
     documentation |->
         RawString(GetOr(Attr(s, ids_node, "documentation"), "")),
     units |-> GetOr(Attr(s, ids_node, "units"), "none"),
     ids_name |-> ids_name]

(***************************************************************************)
(* _get_ids_set, _total_elements, the selection of _get_document            *)
(***************************************************************************)
NoneSet == [given |-> FALSE, names |-> {}]

SomeSet(names) == [given |-> TRUE, names |-> names]

GetIdsSet(s, given_set) ==
    IF given_set.given THEN given_set.names
    ELSE {s[k].name : k \in {n \in 1..Len(s) :
                                /\ s[n].depth = 1
                                /\ s[n].name # NoAttr
                                /\ Truthy(s[n].name)}}

SelectedIdsNodes(s, given_set) ==
    SelectSeq(IdsElements(s), LAMBDA k : s[k].name \in GetIdsSet(s, given_set))

RECURSIVE SumElements(_, _)
SumElements(s, nodes) ==
    IF nodes = << >> THEN 0
    ELSE 1 + Len(NamedDescendants(s, Head(nodes)))
         + SumElements(s, Tail(nodes))

TotalElements(s, given_set) == SumElements(s, SelectedIdsNodes(s, given_set))

\* The records a complete run of _get_document yields for a selection: the
\* two for loops of lines 399-422 as one expression.
RECURSIVE ElementEntries(_, _, _)
ElementEntries(s, ids_node, named) ==
    IF named = << >> THEN << >>
    ELSE LET entry == BuildElementEntry(s, Head(named), ids_node,
                                        Attr(s, ids_node, "name"))
         IN  (IF entry = NoEntry THEN << >> ELSE <<entry>>)
             \o ElementEntries(s, ids_node, Tail(named))

RECURSIVE IdsEntries(_, _)
IdsEntries(s, nodes) ==
    IF nodes = << >> THEN << >>
    ELSE LET ids_node == Head(nodes)
             ids_name == Attr(s, ids_node, "name")
         IN  (IF ~Truthy(ids_name) THEN << >>
              ELSE <<IdsRootEntry(s, ids_node, ids_name)>>
                   \o ElementEntries(s, ids_node,
                                     NamedDescendants(s, ids_node)))
             \o IdsEntries(s, Tail(nodes))

ExtractAll(s, given_set) == IdsEntries(s, SelectedIdsNodes(s, given_set))

(***************************************************************************)
(* Python str values: the code points of the strings the model uses, their  *)
(* order under sorted(), ",".join() and str.encode("utf-8")                 *)
(***************************************************************************)
CodePoints(str) ==
    CASE str = "" -> << >>
      [] str = "a" -> <<97>>
      [] str = "b" -> <<98>>
      [] str = "ab" -> <<97, 98>>
      [] str = "B" -> <<66>>
      [] str = "X" -> <<88>>
      [] str = "semantic" -> <<115, 101, 109, 97, 110, 116, 105, 99>>
      [] str = "lexicographic" -> <<108, 101, 120, 105, 99, 111, 103, 114, 97, 112, 104, 105, 99>>
      [] str = "3.40.0" -> <<51, 46, 52, 48, 46, 48>>
      [] str = "4.0.0" -> <<52, 46, 48, 46, 48>>

\* str.__lt__: lexicographic by code point, a proper prefix first
RECURSIVE CodesLess(_, _)
CodesLess(x, y) ==
    IF y = << >> THEN FALSE
    ELSE IF x = << >> THEN TRUE
    ELSE IF Head(x) # Head(y) THEN Head(x) < Head(y)
    ELSE CodesLess(Tail(x), Tail(y))

StrLess(x, y) == CodesLess(CodePoints(x), CodePoints(y))

\* One step of an insertion sort: str into the sorted list
RECURSIVE InsertSorted(_, _)
InsertSorted(str, sorted_list) ==
    IF sorted_list = << >> THEN <<str>>
    ELSE IF StrLess(str, Head(sorted_list)) THEN <<str>> \o sorted_list
    ELSE <<Head(sorted_list)>> \o InsertSorted(str, Tail(sorted_list))

RECURSIVE SortStrings(_)
SortStrings(list) ==
    IF list = << >> THEN << >>
    ELSE InsertSorted(Head(list), SortStrings(Tail(list)))

SortedKeepsOrder(list) == list

\* sorted(list(self.ids_set))
Sorted(list) == SortStrings(list)

\* ",".join(names), as code points
RECURSIVE JoinComma(_)
JoinComma(names) ==
    IF names = << >> THEN << >>
    ELSE IF Len(names) = 1 THEN CodePoints(Head(names))
    ELSE CodePoints(Head(names)) \o <<44>> \o JoinComma(Tail(names))

\* str.encode("utf-8") for code points below U+0800
RECURSIVE Utf8Encode(_)
Utf8Encode(codes) ==
    IF codes = << >> THEN << >>
    ELSE (IF Head(codes) < 128 THEN <<Head(codes)>>
          ELSE <<192 + (Head(codes) \div 64), 128 + (Head(codes) % 64)>>)
         \o Utf8Encode(Tail(codes))

(***************************************************************************)
(* hashlib.md5 (RFC 1321) on a sequence of bytes.  A 32-bit word is the     *)
(* pair <<high 16 bits, low 16 bits>>.                                      *)
(***************************************************************************)
RECURSIVE And16(_, _)
And16(x, y) ==
    IF x = 0 \/ y = 0 THEN 0
    ELSE ((x % 2) * (y % 2)) + (2 * And16(x \div 2, y \div 2))

Or16(x, y) == x + y - And16(x, y)

Xor16(x, y) == x + y - (2 * And16(x, y))

WAnd(a, b) == <<And16(a[1], b[1]), And16(a[2], b[2])>>

WOr(a, b) == <<Or16(a[1], b[1]), Or16(a[2], b[2])>>

WXor(a, b) == <<Xor16(a[1], b[1]), Xor16(a[2], b[2])>>

WNot(a) == <<65535 - a[1], 65535 - a[2]>>

WAdd(a, b) ==
    LET lo == a[2] + b[2]
    IN  <<(a[1] + b[1] + (lo \div 65536)) % 65536, lo % 65536>>

RECURSIVE Pow2(_)
Pow2(n) == IF n = 0 THEN 1 ELSE 2 * Pow2(n - 1)

WRotl(a, s) ==
    LET w == IF s >= 16 THEN <<a[2], a[1]>> ELSE a
        r == s % 16
    IN  IF r = 0 THEN w
        ELSE <<((w[1] * Pow2(r)) % 65536) + (w[2] \div Pow2(16 - r)),
               ((w[2] * Pow2(r)) % 65536) + (w[1] \div Pow2(16 - r))>>

Md5K ==
    <<
       <<55146, 42104>>, <<59591, 46934>>, <<9248, 28891>>, <<49597, 52974>>,
       <<62844, 4015>>, <<18311, 50730>>, <<43056, 17939>>, <<64838, 38145>>,
       <<27008, 39128>>, <<35652, 63407>>, <<65535, 23473>>, <<35164, 55230>>,
       <<27536, 4386>>, <<64920, 29075>>, <<42617, 17294>>, <<18868, 2081>>,
       <<63006, 9570>>, <<49216, 45888>>, <<9822, 23121>>, <<59830, 51114>>,
       <<54831, 4189>>, <<580, 5203>>, <<55457, 59009>>, <<59347, 64456>>,
       <<8673, 52710>>, <<49975, 2006>>, <<62677, 3463>>, <<17754, 5357>>,
       <<43491, 59653>>, <<64751, 41976>>, <<26479, 729>>, <<36138, 19594>>,
       <<65530, 14658>>, <<34673, 63105>>, <<28061, 24866>>, <<64997, 14348>>,
       <<42174, 59972>>, <<19422, 53161>>, <<63163, 19296>>, <<48831, 48240>>,
       <<10395, 32454>>, <<60065, 10234>>, <<54511, 12421>>, <<1160, 7429>>,
       <<55764, 53305>>, <<59099, 39397>>, <<8098, 31992>>, <<50348, 22117>>,
       <<62505, 8772>>, <<17194, 65431>>, <<43924, 9127>>, <<64659, 41017>>,
       <<25947, 22979>>, <<36620, 52370>>, <<65519, 62589>>, <<34180, 24017>>,
       <<28584, 32335>>, <<65068, 59104>>, <<41729, 17172>>, <<19976, 4513>>,
       <<63315, 32386>>, <<48442, 62005>>, <<10967, 53947>>, <<60294, 54161>>
    >>

Md5S ==
    <<
       7, 12, 17, 22, 7, 12, 17, 22, 7, 12, 17, 22, 7, 12, 17, 22,
       5, 9, 14, 20, 5, 9, 14, 20, 5, 9, 14, 20, 5, 9, 14, 20,
       4, 11, 16, 23, 4, 11, 16, 23, 4, 11, 16, 23, 4, 11, 16, 23,
       6, 10, 15, 21, 6, 10, 15, 21, 6, 10, 15, 21, 6, 10, 15, 21
    >>

Md5Init ==
    [a |-> <<26437, 8961>>, b |-> <<61389, 43913>>,
     c |-> <<39098, 56574>>, d |-> <<4146, 21622>>, offset |-> 0]

\* The message padded to a multiple of 64 bytes: 0x80, zeros, and the length
\* in bits as 8 little-endian bytes (messages shorter than 2^28 bytes).
Md5Pad(msg) ==
    LET n == Len(msg)
        zeros == (119 - (n % 64)) % 64
        bits == 8 * n
    IN  msg \o <<128>> \o [z \in 1..zeros |-> 0]
        \o <<bits % 256, (bits \div 256) % 256, (bits \div 65536) % 256,
             bits \div 16777216, 0, 0, 0, 0>>

\* Word g (0..15) of the block starting after offset bytes, little-endian.
Md5Word(padded, offset, g) ==
    LET at == offset + 4 * g
    IN  <<padded[at + 3] + 256 * padded[at + 4],
          padded[at + 1] + 256 * padded[at + 2]>>

\* Round st.r (0..63) of the main loop on the block at offset.
Md5Step(st, padded, offset) ==
    LET r == st.r
        f == IF r < 16 THEN WOr(WAnd(st.b, st.c), WAnd(WNot(st.b), st.d))
             ELSE IF r < 32
             THEN WOr(WAnd(st.d, st.b), WAnd(WNot(st.d), st.c))
             ELSE IF r < 48 THEN WXor(st.b, WXor(st.c, st.d))
             ELSE WXor(st.c, WOr(st.b, WNot(st.d)))
        g == IF r < 16 THEN r
             ELSE IF r < 32 THEN (5 * r + 1) % 16
             ELSE IF r < 48 THEN (3 * r + 5) % 16
             ELSE (7 * r) % 16
        sum == WAdd(WAdd(f, st.a),
                    WAdd(Md5K[r + 1], Md5Word(padded, offset, g)))
    IN  [a |-> st.d, b |-> WAdd(st.b, WRotl(sum, Md5S[r + 1])),
         c |-> st.b, d |-> st.c, r |-> r + 1]

RECURSIVE Md5Rounds(_, _, _)
Md5Rounds(st, padded, offset) ==
    IF st.r = 64 THEN st
    ELSE Md5Rounds(Md5Step(st, padded, offset), padded, offset)

\* The chaining value h after every block from h.offset on.
RECURSIVE Md5Blocks(_, _)
Md5Blocks(h, padded) ==
    IF h.offset >= Len(padded) THEN h
    ELSE LET out == Md5Rounds([a |-> h.a, b |-> h.b, c |-> h.c, d |-> h.d,
                               r |-> 0], padded, h.offset)
         IN  Md5Blocks([a |-> WAdd(h.a, out.a), b |-> WAdd(h.b, out.b),
                        c |-> WAdd(h.c, out.c), d |-> WAdd(h.d, out.d),
                        offset |-> h.offset + 64], padded)

WordBytes(w) == <<w[2] % 256, w[2] \div 256, w[1] % 256, w[1] \div 256>>

\* md5(data).digest(): 16 bytes
Md5Digest(data) ==
    LET st == Md5Blocks(Md5Init, Md5Pad(data))
    IN  WordBytes(st.a) \o WordBytes(st.b) \o WordBytes(st.c)
        \o WordBytes(st.d)

\* The code point of a lower-case hexadecimal digit
HexDigit(n) == IF n < 10 THEN 48 + n ELSE 87 + n

RECURSIVE HexOf(_)
HexOf(bytes) ==
    IF bytes = << >> THEN << >>
    ELSE <<HexDigit(Head(bytes) \div 16), HexDigit(Head(bytes) % 16)>>
         \o HexOf(Tail(bytes))

\* md5(data).hexdigest()
Md5HexDigest(data) == HexOf(Md5Digest(data))

(***************************************************************************)
(* _get_index_name                                                          *)
(***************************************************************************)
HashSuffixLength == 8

\* The orders in which list(a_set) can enumerate the set
Orders(S) ==
    {q \in [1..Cardinality(S) -> S] : \A x \in S : \E n \in DOMAIN q : q[n] = x}

\* given_set is self.ids_set and as_list one enumeration of it.
GetIndexName(prefix, version, given_set, as_list) ==
    LET unsuffixed == CodePoints(prefix) \o <<95>> \o CodePoints(version)
    IN  IF given_set.given /\ Cardinality(given_set.names) > 0
        THEN LET ids_str == JoinComma(Sorted(as_list))
                 hash_suffix ==
                     SubSeq(Md5HexDigest(Utf8Encode(ids_str)), 1,
                            HashSuffixLength)
             IN  unsuffixed \o <<45>> \o hash_suffix
        ELSE unsuffixed

(***************************************************************************)
(* The progress trackers (rich Progress behind _progress_tracker)           *)
(***************************************************************************)
NewTracker ==
    [state |-> "unopened", total |-> 0, completed |-> 0, description |-> ""]

\* _progress_tracker(description, total).__enter__()
Enter(trk, which, description, total) ==
    [trk EXCEPT ![which] = [state |-> "open", total |-> total,
                            completed |-> 0, description |-> description]]

\* context manager __exit__ on each tracker of the set
Exit(trk, which_set) ==
    [w \in DOMAIN trk |->
        IF w \in which_set THEN [trk[w] EXCEPT !.state = "closed"] ELSE trk[w]]

\* progress.advance(task)
Advance(trk, which) ==
    [trk EXCEPT ![which].completed = trk[which].completed + 1]

\* progress.update(task, description=...)
Update(trk, which, description) ==
    [trk EXCEPT ![which].description = description]

FinallyExitsOnExhaustionOnly(cm, how) ==
    IF cm # "None" /\ how = "done" THEN {cm} ELSE {}

\* The finally clause of _get_document: which trackers it exits when the
\* generator ends by exhaustion ("done"), exception ("raised") or
\* GeneratorExit at a yield ("closed").
FinallyExits(cm, how) == IF cm # "None" THEN {cm} ELSE {}

(***************************************************************************)
(* Initial states: a DataDictionaryIndex over a schema, and a caller        *)
(***************************************************************************)
TreeNames == {NoAttr, "", "a"}

ChainNames == {NoAttr, "b"}

UnitValues == {NoAttr, AsParent, "m"}

DocTexts == <<"doc1", "doc2", "doc3", "doc4", "doc5", "doc6", "doc7", "doc8">>

\* Trees of n elements: any shape, any names, no units, and on every element
\* a documentation text of its own (so that two records of one path differ).
RECURSIVE TreesOfLen(_)
TreesOfLen(n) ==
    IF n = 0 THEN {<< >>}
    ELSE {Append(s, [depth |-> d, name |-> nm,
                     documentation |-> DocTexts[n], units |-> NoAttr]) :
            s \in TreesOfLen(n - 1),
            d \in 1..n,
            nm \in TreeNames}

WellFormed(s) ==
    \A k \in 1..Len(s) :
        IF k = 1 THEN s[k].depth = 1
        ELSE s[k].depth \in 1..(s[k - 1].depth + 1)

Trees ==
    UNION {{s \in TreesOfLen(n) : WellFormed(s)} : n \in 0..MaxNodes}

\* One IDS "a" over a chain of nested elements, with documentation and units.
RECURSIVE ChainsOfLen(_)
ChainsOfLen(n) ==
    IF n = 0 THEN {<< >>}
    ELSE {Append(s, [depth |-> n, name |-> nm, documentation |-> doc,
                     units |-> u]) :
            s \in ChainsOfLen(n - 1),
            nm \in (IF n = 1 THEN {"a"} ELSE ChainNames),
            doc \in {NoAttr, DocTexts[n]},
            u \in UnitValues}

Chains == UNION {ChainsOfLen(n) : n \in 2..MaxNodes}

TreeSelections == {NoneSet} \cup {SomeSet(S) : S \in SUBSET {"", "a"}}

\* The index name of each selection of the pipeline's initial states, as
\* __post_init__ has set it.
SelectionIndexName ==
    [g \in TreeSelections |->
        GetIndexName("semantic", "3.40.0", g,
                     CHOOSE q \in Orders(g.names) : TRUE)]

\* No call of the composer is under way.
ComposerIdle ==
    /\ fragment_map = << >>
    /\ from_walk = FALSE
    /\ composed = << >>
    /\ cpc = "idle"

\* Neither generator has been started by caller c.
PipelineNew(c, b) ==
    /\ caller = c
    /\ batch_size = b
    /\ pc = "new"
    /\ ids_nodes = << >>
    /\ i = 0
    /\ elems = << >>
    /\ j = 0
    /\ document_count = 0
    /\ context_manager = "None"
    /\ progress = "None"
    /\ tracker = [own |-> NewTracker, shared |-> NewTracker]
    /\ extractor_exits = {}
    /\ stream = << >>
    /\ pending = FALSE
    /\ bpc = IF c = "batcher" THEN "new" ELSE "off"
    /\ documents_batch = << >>
    /\ processed_paths = {}
    /\ total_documents = 0
    /\ batch_count = 0
    /\ batches = << >>

InitWith(s, g, c, b) ==
    /\ schema = s
    /\ ids_set = g
    /\ index_prefix = "semantic"
    /\ dd_version = "3.40.0"
    /\ indexname = SelectionIndexName[g]
    /\ ipc = "ready"
    /\ PipelineNew(c, b)
    /\ ComposerIdle

Init ==
    \/ \E s \in Trees, g \in TreeSelections :
          \/ InitWith(s, g, "direct", DEFAULT_BATCH_SIZE)
          \/ \E b \in 1..MaxBatch : InitWith(s, g, "batcher", b)
    \/ \E s \in Chains : InitWith(s, NoneSet, "direct", DEFAULT_BATCH_SIZE)

(***************************************************************************)
(* _get_document: the extractor generator                                   *)
(***************************************************************************)
\* The consumer has asked for the next item (next() on the generator).
Resumable ==
    \/ caller = "direct"
    \/ caller = "batcher" /\ bpc = "loop" /\ ~pending

\* How the generator's end reaches the batcher: an exception propagates
\* through "except Exception: ... raise" and the with block of
\* _get_document_batch, which exits the shared tracker.
EndExtractor(how) ==
    LET exits == FinallyExits(context_manager, how)
    IN  /\ pc' = how
        /\ extractor_exits' = extractor_exits \cup exits
        /\ IF how = "raised" /\ caller = "batcher"
           THEN /\ tracker' = Exit(Exit(tracker, exits), {"shared"})
                /\ bpc' = "raised"
           ELSE /\ tracker' = Exit(tracker, exits)
                /\ bpc' = bpc

\* First next(): lines 360-397, up to the for loop.
Start ==
    /\ pc = "new"
    /\ Resumable
    /\ LET nodes == SelectedIdsNodes(schema, ids_set)
       IN  /\ ids_nodes' = nodes
           /\ IF nodes = << >>
              THEN /\ pc' = "done"
                   /\ UNCHANGED <<context_manager, progress, tracker, i>>
              ELSE /\ pc' = "ids"
                   /\ i' = 1
                   /\ IF caller = "batcher"
                      THEN /\ context_manager' = "None"
                           /\ progress' = "shared"
                           /\ tracker' = tracker
                      ELSE /\ context_manager' = "own"
                           /\ progress' = "own"
                           /\ tracker' =
                                Enter(tracker, "own",
                                      "Extracting Data Dictionary documents",
                                      TotalElements(schema, ids_set))
    /\ UNCHANGED <<configVars, identityVars, composerVars, elems, j, document_count, extractor_exits,
                   stream, pending, batcherVars>>

\* "for ids_node in ids_nodes": the next IDS, or the end of the loop, the
\* finally clause and the generator's exhaustion.
NextIds ==
    /\ pc = "ids"
    /\ Resumable
    /\ IF i > Len(ids_nodes)
       THEN /\ EndExtractor("done")
            /\ UNCHANGED <<i, stream, pending>>
       ELSE LET ids_node == ids_nodes[i]
                ids_name == Attr(schema, ids_node, "name")
            IN  IF ~Truthy(ids_name)
                THEN /\ i' = i + 1
                     /\ UNCHANGED <<pc, stream, pending, tracker,
                                    extractor_exits, bpc>>
                ELSE /\ stream' =
                          Append(stream,
                                 IdsRootEntry(schema, ids_node, ids_name))
                     /\ pending' = (caller = "batcher")
                     /\ pc' = "yield_root"
                     /\ UNCHANGED <<i, tracker, extractor_exits, bpc>>
    /\ UNCHANGED <<configVars, identityVars, composerVars, ids_nodes, elems, j, document_count,
                   context_manager, progress, documents_batch,
                   processed_paths, total_documents, batch_count, batches>>

\* Resumed after yielding the IDS record: lines 409-414.
AfterRoot ==
    /\ pc = "yield_root"
    /\ Resumable
    /\ document_count' = document_count + 1
    /\ tracker' = IF progress # "None" THEN Advance(tracker, progress)
                  ELSE tracker
    /\ elems' = NamedDescendants(schema, ids_nodes[i])
    /\ j' = 1
    /\ pc' = "elems"
    /\ UNCHANGED <<configVars, identityVars, composerVars, ids_nodes, i, context_manager, progress,
                   extractor_exits, stream, pending, batcherVars>>

\* "for elem in ...": build the entry of the next named descendant and
\* yield it, or skip it when the entry is None.
NextElem ==
    /\ pc = "elems"
    /\ Resumable
    /\ IF j > Len(elems)
       THEN /\ i' = i + 1
            /\ pc' = "ids"
            /\ UNCHANGED <<j, stream, pending>>
       ELSE LET ids_node == ids_nodes[i]
                entry == BuildElementEntry(schema, elems[j], ids_node,
                                           Attr(schema, ids_node, "name"))
            IN  IF entry = NoEntry
                THEN /\ j' = j + 1
                     /\ UNCHANGED <<i, pc, stream, pending>>
                ELSE /\ stream' = Append(stream, entry)
                     /\ pending' = (caller = "batcher")
                     /\ pc' = "yield_elem"
                     /\ UNCHANGED <<i, j>>
    /\ UNCHANGED <<configVars, identityVars, composerVars, ids_nodes, elems, document_count,
                   context_manager, progress, tracker, extractor_exits,
                   batcherVars>>

\* Resumed after yielding a descendant's record: lines 420-429.
AfterElem ==
    /\ pc = "yield_elem"
    /\ Resumable
    /\ document_count' = document_count + 1
    /\ tracker' =
         IF progress = "None" THEN tracker
         ELSE IF (document_count + 1) % PROGRESS_LOG_INTERVAL = 0
         THEN Update(Advance(tracker, progress), progress,
                     Attr(schema, ids_nodes[i], "name"))
         ELSE Advance(tracker, progress)
    /\ j' = j + 1
    /\ pc' = "elems"
    /\ UNCHANGED <<configVars, identityVars, composerVars, ids_nodes, i, elems, context_manager,
                   progress, extractor_exits, stream, pending, batcherVars>>

\* An exception inside the try block while the generator runs.
Raise ==
    /\ pc \in {"ids", "elems"}
    /\ Resumable
    /\ EndExtractor("raised")
    /\ UNCHANGED <<configVars, identityVars, composerVars, ids_nodes, i, elems, j, document_count,
                   context_manager, progress, stream, pending,
                   documents_batch, processed_paths, total_documents,
                   batch_count, batches>>

\* The direct caller stops iterating: close() on the generator suspended
\* at a yield raises GeneratorExit there.
Close ==
    /\ caller = "direct"
    /\ pc \in {"yield_root", "yield_elem"}
    /\ EndExtractor("closed")
    /\ UNCHANGED <<configVars, identityVars, composerVars, ids_nodes, i, elems, j, document_count,
                   context_manager, progress, stream, pending,
                   documents_batch, processed_paths, total_documents,
                   batch_count, batches>>

(***************************************************************************)
(* _get_document_batch: the batcher generator                               *)
(***************************************************************************)
RequiredKeys == {"path", "documentation", "ids_name"}

SkipsOnlyEmptyPath(path, processed) == path = << >>

\* "if not path or path in processed_paths: continue"
Skips(path, processed) == path = << >> \/ path \in processed

BatchFullWhenOver(batch, size) == Len(batch) > size

\* "if len(documents_batch) >= batch_size"
BatchFull(batch, size) == Len(batch) >= size

\* Lines 450-466: enter the shared tracker; the extractor generator is
\* created but has not started.
BatcherStart ==
    /\ bpc = "new"
    /\ tracker' = Enter(tracker, "shared", "Processing IDS attributes",
                        TotalElements(schema, ids_set))
    /\ bpc' = "loop"
    /\ UNCHANGED <<configVars, identityVars, composerVars, extractorVars, pending, documents_batch,
                   processed_paths, total_documents, batch_count, batches>>

\* One pass of the body of "for entry_dict in self._get_document(...)".
BatchConsume ==
    /\ bpc = "loop"
    /\ pending
    /\ pending' = FALSE
    /\ LET entry_dict == stream[Len(stream)]
           path == entry_dict.path
       IN  IF Skips(path, processed_paths)
           THEN UNCHANGED batcherVars
           ELSE IF ~(RequiredKeys \subseteq DOMAIN entry_dict)
           THEN UNCHANGED batcherVars
           ELSE LET appended == Append(documents_batch, entry_dict)
                IN  /\ documents_batch' = appended
                    /\ processed_paths' = processed_paths \cup {path}
                    /\ total_documents' = total_documents + 1
                    /\ IF BatchFull(appended, batch_size)
                       THEN /\ batch_count' = batch_count + 1
                            /\ batches' = Append(batches, appended)
                            /\ bpc' = "emitted"
                       ELSE UNCHANGED <<batch_count, batches, bpc>>
    /\ UNCHANGED <<configVars, identityVars, composerVars, extractorVars, tracker>>

\* Resumed after yielding a full batch: documents_batch.clear().
BatchResume ==
    /\ bpc = "emitted"
    /\ documents_batch' = << >>
    /\ bpc' = "loop"
    /\ UNCHANGED <<configVars, identityVars, composerVars, extractorVars, tracker, pending,
                   processed_paths, total_documents, batch_count, batches>>

\* The extractor is exhausted: yield the remainder, or leave the with block.
BatchRemainder ==
    /\ bpc = "loop"
    /\ pc = "done"
    /\ ~pending
    /\ IF documents_batch # << >>
       THEN /\ batch_count' = batch_count + 1
            /\ batches' = Append(batches, documents_batch)
            /\ bpc' = "final"
            /\ UNCHANGED tracker
       ELSE /\ tracker' = Exit(tracker, {"shared"})
            /\ bpc' = "done"
            /\ UNCHANGED <<batch_count, batches>>
    /\ UNCHANGED <<configVars, identityVars, composerVars, extractorVars, pending, documents_batch,
                   processed_paths, total_documents>>

\* Resumed after yielding the remainder: leave the with block.
BatchEnd ==
    /\ bpc = "final"
    /\ tracker' = Exit(tracker, {"shared"})
    /\ bpc' = "done"
    /\ UNCHANGED <<configVars, identityVars, composerVars, extractorVars, pending, documents_batch,
                   processed_paths, total_documents, batch_count, batches>>

\* The batcher's caller stops iterating: GeneratorExit at the batcher's
\* yield leaves the with block, and the extractor generator, dropped while
\* suspended at its own yield, is closed in turn.
BatcherClose ==
    /\ bpc \in {"emitted", "final"}
    /\ bpc' = "closed"
    /\ IF pc \in {"yield_root", "yield_elem"}
       THEN LET exits == FinallyExits(context_manager, "closed")
            IN  /\ pc' = "closed"
                /\ extractor_exits' = extractor_exits \cup exits
                /\ tracker' = Exit(Exit(tracker, exits), {"shared"})
       ELSE /\ tracker' = Exit(tracker, {"shared"})
            /\ UNCHANGED <<pc, extractor_exits>>
    /\ UNCHANGED <<configVars, identityVars, composerVars, ids_nodes, i, elems, j, document_count,
                   context_manager, progress, stream, pending,
                   documents_batch, processed_paths, total_documents,
                   batch_count, batches>>

Next ==
    \/ Start
    \/ NextIds
    \/ AfterRoot
    \/ NextElem
    \/ AfterElem
    \/ Raise
    \/ Close
    \/ BatcherStart
    \/ BatchConsume
    \/ BatchResume
    \/ BatchRemainder
    \/ BatchEnd
    \/ BatcherClose

Spec == Init /\ [][Next]_vars

(***************************************************************************)
(* Specification SpecIdentity: __post_init__ deriving the index name        *)
(***************************************************************************)
IdentityNames == {"a", "b", "ab", "B", "X"}

IdentityPrefixes == {"lexicographic", "semantic"}

IdentityVersions == {"3.40.0", "4.0.0"}

IdentitySets ==
    {NoneSet} \cup {SomeSet(S) : S \in {T \in SUBSET IdentityNames :
                                          Cardinality(T) <= MaxSubset}}

InitIdentity ==
    \E p \in IdentityPrefixes, v \in IdentityVersions, g \in IdentitySets :
        /\ schema = << >>
        /\ ids_set = g
        /\ index_prefix = p
        /\ dd_version = v
        /\ indexname = << >>
        /\ ipc = "constructing"
        /\ PipelineNew("direct", DEFAULT_BATCH_SIZE)
        /\ ComposerIdle

\* __post_init__: self.indexname = self._get_index_name(), with the set
\* enumerated in whatever order the interpreter gives.
PostInit ==
    /\ ipc = "constructing"
    /\ \E q \in Orders(ids_set.names) :
          indexname' = GetIndexName(index_prefix, dd_version, ids_set, q)
    /\ ipc' = "ready"
    /\ UNCHANGED <<configVars, pipelineVars, composerVars>>

NextIdentity == PostInit

SpecIdentity == InitIdentity /\ [][NextIdentity]_vars

(***************************************************************************)
(* Specification SpecCompose: _build_hierarchical_documentation applied to  *)
(* a fragment map, either any map within the bounds or one collected by the *)
(* upward walk of _build_element_entry                                      *)
(***************************************************************************)
ComposeKeys ==
    {<<"a">>, <<"b">>, <<"a", "a">>, <<"a", "b">>, <<"a", "b", "a">>,
     <<"a", "a", "a", "a", "a">>}

ComposeDocs == {"", "text"}

RECURSIVE MapsOfLen(_)
MapsOfLen(n) ==
    IF n = 0 THEN {<< >>}
    ELSE {Append(d, [key |-> k, doc |-> txt]) :
            d \in MapsOfLen(n - 1), k \in ComposeKeys, txt \in ComposeDocs}

DistinctKeys(d) ==
    \A m, n \in 1..Len(d) : m # n => d[m].key # d[n].key

AnyMaps ==
    UNION {{d \in MapsOfLen(n) : DistinctKeys(d)} : n \in 0..MaxParts}

WalkMaps ==
    {FragmentMap(x[1], x[2], 1, "a") :
        x \in {y \in Chains \X (2..MaxNodes) :
                  /\ y[2] <= Len(y[1])
                  /\ Truthy(y[1][y[2]].name)}}

InitCompose ==
    /\ schema = << >>
    /\ ids_set = NoneSet
    /\ index_prefix = "semantic"
    /\ dd_version = "3.40.0"
    /\ indexname = SelectionIndexName[NoneSet]
    /\ ipc = "ready"
    /\ PipelineNew("direct", DEFAULT_BATCH_SIZE)
    /\ composed = << >>
    /\ cpc = "input"
    /\ \/ fragment_map \in AnyMaps /\ from_walk = FALSE
       \/ fragment_map \in WalkMaps /\ from_walk = TRUE

Compose ==
    /\ cpc = "input"
    /\ composed' = BuildHierarchicalDocumentation(fragment_map)
    /\ cpc' = "returned"
    /\ UNCHANGED <<configVars, pipelineVars, identityVars, fragment_map,
                   from_walk>>

NextCompose == Compose

SpecCompose == InitCompose /\ [][NextCompose]_vars

(***************************************************************************)
(* Properties of the pipeline (specification Spec)                          *)
(***************************************************************************)
Ended == pc \in {"done", "raised", "closed"}

RECURSIVE Flatten(_)
Flatten(seqs) ==
    IF seqs = << >> THEN << >> ELSE Head(seqs) \o Flatten(Tail(seqs))

\* The records the batcher has delivered, in order of delivery.
Delivered == Flatten(batches)

FirstWithPath(path) ==
    stream[Min({k \in 1..Len(stream) : stream[k].path = path})]

\* The first record of every path of the stream, in the stream's order.
FirstOccurrences ==
    LET firsts == {k \in 1..Len(stream) :
                      \A m \in 1..(k - 1) : stream[m].path # stream[k].path}
        order == Ascending(firsts)
    IN  [n \in 1..Len(order) |-> stream[order[n]]]

\* C1: every record the extractor yields has units other than the
\* inheritance marker "as_parent".
C1_UnitsNeverMarker ==
    \A n \in 1..Len(stream) : stream[n].units # AsParent

\* C2: no two records of the emitted batches share a path, and the record
\* kept for a path is the first one the extractor yielded with that path.
C2_BatcherDedup ==
    /\ \A m, n \in 1..Len(Delivered) :
          m # n => Delivered[m].path # Delivered[n].path
    /\ \A n \in 1..Len(Delivered) :
          Delivered[n] = FirstWithPath(Delivered[n].path)

\* C2 witness: a batch was emitted while the stream held a second,
\* different record of a delivered path, which the batcher has handled.
C2_Witness ==
    /\ ~pending
    /\ \E n \in 1..Len(Delivered), k \in 1..Len(stream) :
          /\ stream[k].path = Delivered[n].path
          /\ stream[k] # Delivered[n]

\* C3: on completion the batcher has emitted ceil(N/B) non-empty batches,
\* all of size B but the last, which holds N mod B records (B when B divides
\* N), and the batches concatenated are the first occurrences of the paths in
\* the extractor's order.
C3_BatchShape ==
    (bpc = "done" /\ pc = "done" /\ batch_size >= 1) =>
        LET N == Cardinality({stream[k].path : k \in 1..Len(stream)})
            B == batch_size
            count == Len(batches)
        IN  /\ count = (N + B - 1) \div B
            /\ \A n \in 1..count : batches[n] # << >>
            /\ \A n \in 1..(count - 1) : Len(batches[n]) = B
            /\ count > 0 =>
                  Len(batches[count]) = (IF N % B = 0 THEN B ELSE N % B)
            /\ Delivered = FirstOccurrences
            /\ batch_count = count
            /\ total_documents = N

\* C3 witness: a completed run of two or more batches whose last batch is
\* short.
C3_Witness ==
    /\ bpc = "done"
    /\ pc = "done"
    /\ Len(batches) >= 2
    /\ Len(batches[Len(batches)]) < batch_size

\* C7: once the generator has ended, by exhaustion, exception or close, a
\* tracker it entered itself is exited; and it never exits the caller's.
C7_OwnTrackerReleased ==
    /\ (Ended /\ tracker.own.state # "unopened") =>
          (tracker.own.state = "closed" /\ "own" \in extractor_exits)
    /\ ~Ended => tracker.own.state # "closed"
    /\ "shared" \notin extractor_exits

\* C7 witness: the caller closed the generator at a yield and the tracker
\* the generator had entered is exited.
C7_Witness ==
    /\ pc = "closed"
    /\ context_manager = "own"
    /\ tracker.own.state = "closed"

\* C8: with a sink supplied, a completed extraction has advanced the sink
\* once per visited element, i.e. _total_elements times (stated for the
\* selections whose IDS all have a non-empty name, so that every selected
\* IDS is visited).
C8_AdvancePerVisitedElement ==
    (/\ caller = "batcher"
     /\ pc = "done"
     /\ \A n \in 1..Len(ids_nodes) : Truthy(Attr(schema, ids_nodes[n], "name")))
        => tracker.shared.completed = TotalElements(schema, ids_set)

\* The proper ancestors of elem inside its IDS, the IDS element included.
RECURSIVE AncestorsWithin(_, _, _)
AncestorsWithin(s, k, ids_node) ==
    IF k = ids_node \/ k = XmlRoot \/ k = NoElem THEN {}
    ELSE LET parent == ParentMap(s, k)
         IN  (IF parent = XmlRoot \/ parent = NoElem THEN {} ELSE {parent})
             \cup AncestorsWithin(s, parent, ids_node)

\* Ancestors whose documentation the walk collects: documented, and either
\* named or the IDS element itself.
DocumentedAncestors(s, elem, ids_node) ==
    {k \in AncestorsWithin(s, elem, ids_node) :
        /\ Truthy(Attr(s, k, "documentation"))
        /\ (k = ids_node \/ Truthy(Attr(s, k, "name")))}

\* C4: the record of a named descendant that has no documentation of its
\* own, but documented ancestors, has no bolded leaf entry, and every such
\* ancestor's text is a block of the "Hierarchical Context" section.
C4_UndocumentedLeafOmitted ==
    pc = "yield_elem" =>
        LET elem == elems[j]
            ids_node == ids_nodes[i]
            doc == stream[Len(stream)].documentation
            ancestors == DocumentedAncestors(schema, elem, ids_node)
        IN  (/\ Truthy(Attr(schema, elem, "name"))
             /\ ~Truthy(Attr(schema, elem, "documentation"))
             /\ ancestors # {}) =>
                /\ \A n \in 1..Len(doc) : doc[n].kind # "leaf"
                /\ \A k \in ancestors :
                      \E n \in 1..Len(doc) :
                          /\ doc[n].kind \in {"heading", "bold"}
                          /\ doc[n].text = Attr(schema, k, "documentation")

\* C10: the absent and the empty subset get the same, unsuffixed index
\* name, and a completed extraction yields the record set, over the working
\* set, of every selection of the same schema that has its index name.
C10_EqualNameSameDocuments ==
    /\ SelectionIndexName[NoneSet] = SelectionIndexName[SomeSet({})]
    /\ SelectionIndexName[NoneSet] =
          CodePoints("semantic") \o <<95>> \o CodePoints("3.40.0")
    /\ pc = "done" =>
          \A g \in TreeSelections :
              SelectionIndexName[g] = indexname =>
                  /\ GetIdsSet(schema, g) = GetIdsSet(schema, ids_set)
                  /\ LET other == ExtractAll(schema, g)
                     IN  {other[n] : n \in 1..Len(other)}
                            = {stream[n] : n \in 1..Len(stream)}

(***************************************************************************)
(* Properties of the index name (specification SpecIdentity)                *)
(***************************************************************************)
IsHexDigit(code) == code \in (48..57) \cup (97..102)

\* The ascending enumeration of a set of names
AscendingNames(S) ==
    CHOOSE q \in Orders(S) :
        \A m, n \in 1..Len(q) : m < n => StrLess(q[m], q[n])

\* C6: the index name is the same for every order in which the subset is
\* enumerated, and for a non-empty subset it differs from that of the
\* absent subset by a suffix "-" and the first 8 hexadecimal digits of the
\* MD5 digest of the names sorted and joined by commas.
C6_IndexNameOfContent ==
    ipc = "ready" =>
        LET unsuffixed == GetIndexName(index_prefix, dd_version, NoneSet, << >>)
            stem == Len(unsuffixed)
        IN  /\ \A q \in Orders(ids_set.names) :
                  GetIndexName(index_prefix, dd_version, ids_set, q) = indexname
            /\ (ids_set.given /\ ids_set.names # {}) =>
                  /\ indexname # unsuffixed
                  /\ Len(indexname) = stem + 1 + HashSuffixLength
                  /\ SubSeq(indexname, 1, stem) = unsuffixed
                  /\ indexname[stem + 1] = 45
                  /\ \A n \in (stem + 2)..Len(indexname) :
                        IsHexDigit(indexname[n])
                  /\ SubSeq(indexname, stem + 2, Len(indexname))
                        = SubSeq(Md5HexDigest(Utf8Encode(JoinComma(
                                     AscendingNames(ids_set.names)))),
                                 1, HashSuffixLength)

\* C6 witness: an index name derived from a subset of two or more names.
C6_Witness ==
    /\ ipc = "ready"
    /\ schema = << >>
    /\ ids_set.given
    /\ Cardinality(ids_set.names) >= 2
    /\ Len(indexname) > Len(CodePoints(index_prefix)) + 1
                          + Len(CodePoints(dd_version))

(***************************************************************************)
(* Properties of the composer (specification SpecCompose)                   *)
(***************************************************************************)
\* The keys of the context blocks of the result, in the order emitted.
ContextKeys ==
    LET blocks == SelectSeq(composed,
                            LAMBDA sec : sec.kind \in {"heading", "bold"})
    IN  [n \in 1..Len(blocks) |-> blocks[n].key]

HasContextHeader ==
    \E n \in 1..Len(composed) : composed[n].kind = "context_header"

\* Position of a key in the fragment map's insertion order
InsertedAt(key) == CHOOSE n \in 1..Len(fragment_map) : fragment_map[n].key = key

DeepestKeys ==
    {fragment_map[n].key : n \in
        {m \in 1..Len(fragment_map) :
            \A o \in 1..Len(fragment_map) :
                SlashCount(fragment_map[o].key)
                    <= SlashCount(fragment_map[m].key)}}

\* C5: for a non-empty map the result begins with the deepest fragment's
\* text block, and holds the "Hierarchical Context" header if and only if a
\* fragment other than the deepest one has non-empty text.
C5_HeaderIffContextText ==
    (cpc = "returned" /\ fragment_map # << >>) =>
        /\ (\A k \in DeepestKeys : Truthy(DictGet(fragment_map, k, ""))) =>
              /\ composed # << >>
              /\ composed[1].kind = "leaf"
              /\ composed[1].key \in DeepestKeys
              /\ composed[1].text = DictGet(fragment_map, composed[1].key, "")
        /\ \E leaf \in DeepestKeys :
              HasContextHeader <=>
                  \E n \in 1..Len(fragment_map) :
                      /\ fragment_map[n].key # leaf
                      /\ Truthy(fragment_map[n].doc)

====
